---- MODULE Spec2Model ----
(***************************************************************************)
(* ImageProcessor (core/image_processor.py): landmark-driven geometry on   *)
(* images.  Every method is a static pure function, so the state is the    *)
(* argument tuple of a call (image, landmarks_df, padding_percent), the    *)
(* name of the method last called and the value it returned (or the        *)
(* exception it raised).                                                   *)
(*                                                                         *)
(* Values                                                                  *)
(*   None            [kind |-> "None"]                                     *)
(*   exception       [kind |-> "raise", error |-> <class name>]            *)
(*   image           [kind |-> "tensor" | "pil" | "ndarray", dtype,        *)
(*                    shape, unit]; unit says that all samples are <= 1.0. *)
(*                   The pixel at row r, column c of an input image is     *)
(*                   identified with <<r, c>>, so a crop is described by   *)
(*                   the source rows and columns it selects.               *)
(*   DataFrame       [kind |-> "DataFrame", rows |-> sequence of           *)
(*                    [index, x, y]]                                       *)
(*   float           a rational <<numerator, denominator>>, denominator >0 *)
(*   angle           degrees, in millionths of a degree                    *)
(***************************************************************************)
EXTENDS Integers, Sequences, FiniteSets, TLC

VARIABLES image, landmarks_df, padding_percent, call, ret

vars == <<image, landmarks_df, padding_percent, call, ret>>

(* ------------------------------ bounds --------------------------------- *)

\* Landmark coordinates of the cropping calls range over -1 .. MaxCoord.
MaxCoord == 3

\* Image heights and widths of the cropping calls range over 1 .. MaxDim.
MaxDim == 3

\* Landmark coordinates of the rotation calls range over 0 .. MaxRotCoord.
MaxRotCoord == 4

\* Image heights and widths of the rotation calls range over 1 .. MaxRotDim.
MaxRotDim == 3

\* Every axis of an image handed to _convert_to_numpy has 1 .. MaxAxis entries.
MaxAxis == 5

(* ------------------------------ values --------------------------------- *)

NoneVal == [kind |-> "None"]

Raise(e) == [kind |-> "raise", error |-> e]

Tuple2(a, b) == [kind |-> "tuple", first |-> a, second |-> b]

IsNone(v) == v.kind = "None"

Abs(n) == IF n < 0 THEN -n ELSE n

RECURSIVE GCD(_, _)
GCD(a, b) == IF b = 0 THEN a ELSE GCD(b, a % b)

SetMin(S) == CHOOSE m \in S : \A n \in S : m <= n

SetMax(S) == CHOOSE m \in S : \A n \in S : n <= m

IntMin(a, b) == IF b < a THEN b ELSE a

IntMax(a, b) == IF b > a THEN b ELSE a

\* Floats, computed exactly.
Q(n) == <<n, 1>>

QNorm(q) ==
    LET g == GCD(Abs(q[1]), q[2])
    IN  <<q[1] \div g, q[2] \div g>>

QAdd(a, b) == QNorm(<<a[1] * b[2] + b[1] * a[2], a[2] * b[2]>>)

QSub(a, b) == QNorm(<<a[1] * b[2] - b[1] * a[2], a[2] * b[2]>>)

QMul(a, b) == QNorm(<<a[1] * b[1], a[2] * b[2]>>)

QLeq(a, b) == a[1] * b[2] <= b[1] * a[2]

QLess(a, b) == a[1] * b[2] < b[1] * a[2]

QIsInt(q) == q[1] % q[2] = 0

\* int(v): truncation toward zero.
PyInt(q) ==
    IF q[1] >= 0 THEN q[1] \div q[2] ELSE -((-q[1]) \div q[2])

\* Variant of max(0, v) with the clamp left out.
PyMax0NoClamp(q) == q

\* max(0, v)
PyMax0(q) == IF q[1] > 0 THEN q ELSE Q(0)

\* The indices a[start:stop] selects on an axis of n entries: a negative
\* bound counts from the end, and both bounds are clamped into 0 .. n.
SliceBound(i, n) ==
    IF i < 0 THEN IntMax(i + n, 0) ELSE IntMin(i, n)

\* Variant of a[start:stop] that does not clamp its bounds to the axis.
SliceUnclamped(start, stop, n) ==
    [k \in 1 .. IntMax(stop - start, 0) |-> start + k - 1]

PySlice(start, stop, n) ==
    LET lo == SliceBound(start, n)
        hi == SliceBound(stop, n)
    IN  [k \in 1 .. IntMax(hi - lo, 0) |-> lo + k - 1]

(* ----------------------------- landmarks ------------------------------- *)

LEFT_EYE == 33

RIGHT_EYE == 263

DataFrame(rows) == [kind |-> "DataFrame", rows |-> rows]

\* landmarks_df.empty
IsEmpty(df) == Len(df.rows) = 0

Xs(df) == {df.rows[i].x : i \in DOMAIN df.rows}

Ys(df) == {df.rows[i].y : i \in DOMAIN df.rows}

\* Variant of the guard with the .empty test left out.
NoLandmarksNoneOnly(df) == IsNone(df)

\* landmarks_df is None or landmarks_df.empty
NoLandmarks(df) == IsNone(df) \/ IsEmpty(df)

\* landmarks_df[landmarks_df['index'] == idx]: the positions of the rows
\* whose index is idx.
RowsWithIndex(df, idx) == {i \in DOMAIN df.rows : df.rows[i].index = idx}

HasIndex(df, idx) == RowsWithIndex(df, idx) # {}

\* .iloc[0] of that selection
FirstWithIndex(df, idx) == df.rows[SetMin(RowsWithIndex(df, idx))]

(* ------------------------------- images -------------------------------- *)

Height(img) == img.shape[1]

Width(img) == img.shape[2]

Canonical(h, w) ==
    [kind |-> "ndarray", dtype |-> "uint8", shape |-> <<h, w, 3>>, unit |-> FALSE]

IsCanonical(v) ==
    /\ v.kind = "ndarray"
    /\ v.dtype = "uint8"
    /\ Len(v.shape) = 3
    /\ v.shape[3] = 3

\* cv2.cvtColor accepts 8-bit, 16-bit and single-precision float samples.
CvtColorDepthOk(dtype) == dtype \in {"uint8", "float32"}

convert_to_numpy(img) ==
    IF IsNone(img) THEN Raise("AttributeError")
    ELSE
      LET a == IF img.kind = "tensor"
                 THEN [kind |-> "ndarray", dtype |-> "uint8", unit |-> FALSE,
                       shape |-> IF Len(img.shape) = 4 THEN Tail(img.shape)
                                 ELSE img.shape]
               ELSE IF img.kind = "pil"
                 THEN [img EXCEPT !.kind = "ndarray"]
               ELSE
                 LET b == IF img.dtype = "float32" /\ img.unit
                            THEN [img EXCEPT !.dtype = "uint8", !.unit = FALSE]
                          ELSE img
                 IN  IF Len(b.shape) = 4
                       THEN [b EXCEPT !.shape = Tail(b.shape)]
                     ELSE b
      IN  IF Len(a.shape) = 2
            THEN IF CvtColorDepthOk(a.dtype)
                   THEN [a EXCEPT !.shape = <<a.shape[1], a.shape[2], 3>>]
                 ELSE Raise("cv2.error")
          ELSE IF a.shape[3] = 4
            THEN IF CvtColorDepthOk(a.dtype)
                   THEN [a EXCEPT !.shape = <<a.shape[1], a.shape[2], 3>>]
                 ELSE Raise("cv2.error")
          ELSE a

(* ------------------------- calculate_face_bbox ------------------------- *)

BBox(x, y, w, h) == [kind |-> "bbox", x |-> x, y |-> y, w |-> w, h |-> h]

\* The minimum of an empty column is NaN, and int(NaN) raises ValueError.
calculate_face_bbox(df, p) ==
    IF NoLandmarks(df) THEN NoneVal
    ELSE IF IsEmpty(df) THEN Raise("ValueError")
    ELSE
      LET min_x == SetMin(Xs(df))
          max_x == SetMax(Xs(df))
          min_y == SetMin(Ys(df))
          max_y == SetMax(Ys(df))
          width == max_x - min_x
          height == max_y - min_y
          pad_x == QMul(Q(width), p)
          pad_y == QMul(Q(height), p)
          x1 == PyMax0(QSub(Q(min_x), pad_x))
          y1 == PyMax0(QSub(Q(min_y), pad_y))
          x2 == QAdd(Q(max_x), pad_x)
          y2 == QAdd(Q(max_y), pad_y)
      IN  BBox(PyInt(x1), PyInt(y1), PyInt(QSub(x2, x1)), PyInt(QSub(y2, y1)))

(* ------------------------------ crop_face ------------------------------ *)

\* image[r0:r1, c0:c1]: the source rows and columns of the result.
Crop(img, r0, r1, c0, c1) ==
    [kind |-> "crop",
     rows |-> PySlice(r0, r1, Height(img)),
     cols |-> PySlice(c0, c1, Width(img))]

crop_face(img, df, p) ==
    LET image_np == convert_to_numpy(img)
        bbox == calculate_face_bbox(df, p)
    IN  IF image_np.kind = "raise" THEN image_np
        ELSE IF bbox.kind # "bbox" THEN bbox
        ELSE Crop(image_np, bbox.y, bbox.y + bbox.h, bbox.x, bbox.x + bbox.w)

(* ------------------------- crop_face_to_square ------------------------- *)

crop_face_to_square(img, df, p) ==
    LET bbox == calculate_face_bbox(df, p)
    IN  IF IsNone(bbox) THEN Tuple2(NoneVal, NoneVal)
        ELSE IF bbox.kind = "raise" THEN bbox
        ELSE IF IsNone(img) THEN Raise("AttributeError")
        ELSE
          LET center_x == bbox.x + (bbox.w \div 2)
              center_y == bbox.y + (bbox.h \div 2)
              crop_size == IntMax(bbox.w, bbox.h)
              half_size == crop_size \div 2
              x1a == IntMax(0, center_x - half_size)
              y1a == IntMax(0, center_y - half_size)
              x2 == IntMin(Width(img), center_x + half_size)
              y2 == IntMin(Height(img), center_y + half_size)
              x1 == IF x2 - x1a < crop_size THEN IntMax(0, x2 - crop_size) ELSE x1a
              y1 == IF y2 - y1a < crop_size THEN IntMax(0, y2 - crop_size) ELSE y1a
          IN  Tuple2(Crop(img, y1, y2, x1, x2), BBox(x1, y1, x2 - x1, y2 - y1))

(* ----------------------- calculate_rotation_angle ---------------------- *)

\* arctan(p / q) in millionths of a degree, for 0 <= p <= q, q > 0.
ArctanDeg(p, q) ==
    LET g == GCD(p, q)
        r == <<p \div g, q \div g>>
    IN  CASE r = <<0, 1>> -> 0
          [] r = <<1, 6>> -> 9462322
          [] r = <<1, 5>> -> 11309932
          [] r = <<1, 4>> -> 14036243
          [] r = <<1, 3>> -> 18434949
          [] r = <<2, 5>> -> 21801409
          [] r = <<1, 2>> -> 26565051
          [] r = <<3, 5>> -> 30963757
          [] r = <<2, 3>> -> 33690068
          [] r = <<3, 4>> -> 36869898
          [] r = <<4, 5>> -> 38659808
          [] r = <<5, 6>> -> 39805571
          [] r = <<1, 1>> -> 45000000

Deg(n) == n * 1000000

\* The angle of the direction (|dx|, |dy|), in 0 .. 90 degrees.
FirstQuadrantDeg(ay, ax) ==
    IF ax = 0 /\ ay = 0 THEN 0
    ELSE IF ay <= ax THEN ArctanDeg(ay, ax)
    ELSE Deg(90) - ArctanDeg(ax, ay)

\* Variant that takes arctan(dy / dx), losing the quadrant.
Arctan2DegNoQuadrant(dy, dx) ==
    IF (dy >= 0) = (dx >= 0)
      THEN FirstQuadrantDeg(Abs(dy), Abs(dx))
    ELSE -FirstQuadrantDeg(Abs(dy), Abs(dx))

\* np.degrees(np.arctan2(dy, dx)), in (-180, 180] degrees; arctan2(0, 0) = 0.
Arctan2Deg(dy, dx) ==
    LET base == FirstQuadrantDeg(Abs(dy), Abs(dx))
    IN  IF dy >= 0
          THEN IF dx >= 0 THEN base ELSE Deg(180) - base
        ELSE IF dx >= 0 THEN -base ELSE base - Deg(180)

Angle(a) == [kind |-> "float", deg |-> a]

\* .iloc[0] of an empty selection raises IndexError.
calculate_rotation_angle(df) ==
    IF NoLandmarks(df) THEN Angle(0)
    ELSE IF ~HasIndex(df, LEFT_EYE) \/ ~HasIndex(df, RIGHT_EYE)
      THEN Raise("IndexError")
    ELSE
      LET left_eye == FirstWithIndex(df, LEFT_EYE)
          right_eye == FirstWithIndex(df, RIGHT_EYE)
          dx == right_eye.x - left_eye.x
          dy == right_eye.y - left_eye.y
      IN  Angle(Arctan2Deg(dy, dx))

(* ----------------------------- rotate_image ----------------------------- *)

QNeg(a) == <<-a[1], a[2]>>

QDiv(a, b) ==
    IF b[1] > 0 THEN QNorm(<<a[1] * b[2], a[2] * b[1]>>)
    ELSE QNorm(<<-(a[1] * b[2]), a[2] * (-b[1])>>)

\* cos of an angle of 0 .. 90 degrees whose cosine and sine are rational.
FirstQuadrantCos(a) ==
    CASE a = 0 -> Q(1)
      [] a = 36869898 -> <<4, 5>>
      [] a = 53130102 -> <<3, 5>>
      [] a = Deg(90) -> Q(0)

HasRationalCos(a) ==
    LET b == IF Abs(a) <= Deg(90) THEN Abs(a) ELSE Deg(180) - Abs(a)
    IN  b \in {0, 36869898, 53130102, Deg(90)}

\* cos(angle * pi / 180)
CosDeg(a) ==
    IF Abs(a) <= Deg(90) THEN FirstQuadrantCos(Abs(a))
    ELSE QNeg(FirstQuadrantCos(Deg(180) - Abs(a)))

\* sin(angle * pi / 180)
SinDeg(a) ==
    LET s == IF Abs(a) <= Deg(90) THEN FirstQuadrantCos(Deg(90) - Abs(a))
             ELSE FirstQuadrantCos(Abs(a) - Deg(90))
    IN  IF a < 0 THEN QNeg(s) ELSE s

\* cv2.getRotationMatrix2D(center, angle, 1.0): the 2 x 3 matrix
\*   [ alpha  beta  (1 - alpha) * cx - beta * cy  ]
\*   [ -beta  alpha  beta * cx + (1 - alpha) * cy ]
getRotationMatrix2D(cx, cy, angle) ==
    LET alpha == CosDeg(angle)
        beta == SinDeg(angle)
    IN  << <<alpha, beta,
             QSub(QMul(QSub(Q(1), alpha), Q(cx)), QMul(beta, Q(cy)))>>,
           <<QNeg(beta), alpha,
             QAdd(QMul(beta, Q(cx)), QMul(QSub(Q(1), alpha), Q(cy)))>> >>

\* M . (x, y, 1)
AffineApply(M, x, y) ==
    << QAdd(QAdd(QMul(M[1][1], x), QMul(M[1][2], y)), M[1][3]),
       QAdd(QAdd(QMul(M[2][1], x), QMul(M[2][2], y)), M[2][3]) >>

\* cv2.invertAffineTransform, which warpAffine applies to M unless
\* WARP_INVERSE_MAP is set.
invertAffineTransform(M) ==
    LET D == QSub(QMul(M[1][1], M[2][2]), QMul(M[1][2], M[2][1]))
        A11 == QDiv(M[2][2], D)
        A22 == QDiv(M[1][1], D)
        A12 == QNeg(QDiv(M[1][2], D))
        A21 == QNeg(QDiv(M[2][1], D))
        b1 == QSub(QNeg(QMul(A11, M[1][3])), QMul(A12, M[2][3]))
        b2 == QSub(QNeg(QMul(A21, M[1][3])), QMul(A22, M[2][3]))
    IN  << <<A11, A12, b1>>, <<A21, A22, b2>> >>

\* cv2.warpAffine(src, M, (width, height)): dst(x, y) = src(M^-1 (x, y)),
\* resampled.  The result is described by its shape and by the map from a
\* destination position to the source position it shows.
warpAffine(src, M, width, height) ==
    [kind |-> "ndarray", dtype |-> src.dtype, unit |-> src.unit,
     shape |-> <<height, width, src.shape[3]>>,
     shows |-> invertAffineTransform(M)]

\* The source position the warped image shows at destination position (x, y).
SourceOf(img, x, y) == AffineApply(img.shows, x, y)

\* Variant that rotates about the origin: the matrix's translation column is
\* left out.
TransformLandmarksNoTranslation(M, df) ==
    DataFrame([i \in DOMAIN df.rows |->
        [df.rows[i] EXCEPT
           !.x = QAdd(QMul(M[1][1], Q(df.rows[i].x)), QMul(M[1][2], Q(df.rows[i].y))),
           !.y = QAdd(QMul(M[2][1], Q(df.rows[i].x)), QMul(M[2][2], Q(df.rows[i].y)))]])

\* rotation_matrix.dot(points.T).T written into a copy of the table
TransformLandmarks(M, df) ==
    DataFrame([i \in DOMAIN df.rows |->
        [df.rows[i] EXCEPT
           !.x = AffineApply(M, Q(df.rows[i].x), Q(df.rows[i].y))[1],
           !.y = AffineApply(M, Q(df.rows[i].x), Q(df.rows[i].y))[2]]])

rotate_image(img, df) ==
    LET image_np == convert_to_numpy(img)
    IN  IF image_np.kind = "raise" THEN image_np
        ELSE IF IsNone(image_np) \/ IsNone(df) THEN Tuple2(NoneVal, NoneVal)
        ELSE
          LET angle == calculate_rotation_angle(df)
              height == image_np.shape[1]
              width == image_np.shape[2]
          IN  IF angle.kind = "raise" THEN angle
              ELSE
                LET rotation_matrix ==
                      getRotationMatrix2D(width \div 2, height \div 2, angle.deg)
                IN  Tuple2(warpAffine(image_np, rotation_matrix, width, height),
                           TransformLandmarks(rotation_matrix, df))

(* -------------------------- the cropping calls -------------------------- *)

\* padding_percent: -1, 0, 1/4, 1/2 and 1.
Paddings == {<<-1, 1>>, <<0, 1>>, <<1, 4>>, <<1, 2>>, <<1, 1>>}

Coords == -1 .. MaxCoord

Row(i, x, y) == [index |-> i, x |-> x, y |-> y]

\* No table, an empty table, a table with the two eye centres, and a table
\* with neither of them.
Tables ==
    {NoneVal, DataFrame(<<>>)}
      \cup {DataFrame(<<Row(LEFT_EYE, lx, ly), Row(RIGHT_EYE, rx, ry)>>) :
              lx \in Coords, ly \in Coords, rx \in Coords, ry \in Coords}
      \cup {DataFrame(<<Row(1, x, y)>>) : x \in Coords, y \in Coords}

Images == {NoneVal} \cup {Canonical(h, w) : h \in 1 .. MaxDim, w \in 1 .. MaxDim}

\* A behaviour is one call: Init draws its arguments, an action makes it.
Init ==
    /\ image \in Images
    /\ landmarks_df \in Tables
    /\ padding_percent \in Paddings
    /\ call = "none"
    /\ ret = NoneVal

CallCalculateFaceBbox ==
    /\ call = "none"
    /\ call' = "calculate_face_bbox"
    /\ ret' = calculate_face_bbox(landmarks_df, padding_percent)
    /\ UNCHANGED <<image, landmarks_df, padding_percent>>

CallCropFace ==
    /\ call = "none"
    /\ call' = "crop_face"
    /\ ret' = crop_face(image, landmarks_df, padding_percent)
    /\ UNCHANGED <<image, landmarks_df, padding_percent>>

CallCropFaceToSquare ==
    /\ call = "none"
    /\ call' = "crop_face_to_square"
    /\ ret' = crop_face_to_square(image, landmarks_df, padding_percent)
    /\ UNCHANGED <<image, landmarks_df, padding_percent>>

CallCalculateRotationAngle ==
    /\ call = "none"
    /\ call' = "calculate_rotation_angle"
    /\ ret' = calculate_rotation_angle(landmarks_df)
    /\ UNCHANGED <<image, landmarks_df, padding_percent>>

Next ==
    \/ CallCalculateFaceBbox
    \/ CallCropFace
    \/ CallCropFaceToSquare
    \/ CallCalculateRotationAngle

Spec == Init /\ [][Next]_vars

(* -------------------------- the rotation calls -------------------------- *)

RotCoords == 0 .. MaxRotCoord

\* The eye centres alone, or behind a third landmark at one of four places.
EyeTables ==
    {DataFrame(<<Row(LEFT_EYE, lx, ly), Row(RIGHT_EYE, rx, ry)>>) :
        lx \in RotCoords, ly \in RotCoords, rx \in RotCoords, ry \in RotCoords}
      \cup {DataFrame(<<Row(1, x, y), Row(RIGHT_EYE, rx, ry), Row(LEFT_EYE, lx, ly)>>) :
              x \in 0 .. 1, y \in 0 .. 1,
              lx \in {1, 2}, ly \in RotCoords, rx \in {1, 2}, ry \in RotCoords}

\* The rotations are computed exactly, so the eye tables are those whose eye
\* line has an angle with rational sine and cosine: the multiples of 90
\* degrees and the angles of the 3-4-5 triangle.
RotTables ==
    {NoneVal, DataFrame(<<>>), DataFrame(<<Row(1, 1, 1)>>)}
      \cup {t \in EyeTables : HasRationalCos(calculate_rotation_angle(t).deg)}

RotImages ==
    {NoneVal, [kind |-> "tensor", dtype |-> "float32", unit |-> TRUE,
               shape |-> <<1, 2, 3, 3>>]}
      \cup {Canonical(h, w) : h \in 1 .. MaxRotDim, w \in 1 .. MaxRotDim}

InitRotate ==
    /\ image \in RotImages
    /\ landmarks_df \in RotTables
    /\ padding_percent = Q(0)
    /\ call = "none"
    /\ ret = NoneVal

CallRotateImage ==
    /\ call = "none"
    /\ call' = "rotate_image"
    /\ ret' = rotate_image(image, landmarks_df)
    /\ UNCHANGED <<image, landmarks_df, padding_percent>>

NextRotate == CallRotateImage

SpecRotate == InitRotate /\ [][NextRotate]_vars

(* ------------------------- the normalising calls ------------------------ *)

Shapes ==
    UNION {[1 .. n -> 1 .. MaxAxis] : n \in 2 .. 4}

\* A tensor of floats in [0, 1]; a PIL image, which np.array turns into 8-bit
\* samples of shape (h, w) or (h, w, 2 | 3 | 4); an array of any shape and
\* dtype, with all samples <= 1.0 or not.
ImageVariants ==
    {NoneVal}
      \cup {[kind |-> "tensor", dtype |-> "float32", unit |-> TRUE, shape |-> sh] :
              sh \in Shapes}
      \cup {[kind |-> "pil", dtype |-> "uint8", unit |-> FALSE, shape |-> sh] :
              sh \in {t \in Shapes : Len(t) = 2 \/ (Len(t) = 3 /\ t[3] \in {2, 3, 4})}}
      \cup {[kind |-> "ndarray", dtype |-> d, unit |-> u, shape |-> sh] :
              d \in {"uint8", "float32", "float64"}, u \in BOOLEAN, sh \in Shapes}

InitConvert ==
    /\ image \in ImageVariants
    /\ landmarks_df = NoneVal
    /\ padding_percent = Q(0)
    /\ call = "none"
    /\ ret = NoneVal

CallConvertToNumpy ==
    /\ call = "none"
    /\ call' = "_convert_to_numpy"
    /\ ret' = convert_to_numpy(image)
    /\ UNCHANGED <<image, landmarks_df, padding_percent>>

NextConvert == CallConvertToNumpy

SpecConvert == InitConvert /\ [][NextConvert]_vars

(* ------------------------- properties: cropping ------------------------ *)

Present(img) == ~IsNone(img)

HasRows(df) == ~IsNone(df) /\ ~IsEmpty(df)

\* The rows (or columns) lo, lo + 1, ..., hi - 1.
Range(lo, hi) == [k \in 1 .. IntMax(hi - lo, 0) |-> lo + k - 1]

\* |n - q| <= 1
Within1(n, q) == QLeq(QSub(Q(n), q), Q(1)) /\ QLeq(QSub(q, Q(n)), Q(1))

SquareCall == call = "crop_face_to_square" /\ Present(image) /\ HasRows(landmarks_df)

PaddedBox == calculate_face_bbox(landmarks_df, padding_percent)

\* C1 (as claimed): whenever the image is at least cropSize = max(width,
\* height) of the padded box in both dimensions, crop_face_to_square returns
\* a crop of exactly cropSize rows and cropSize columns.  The claim is stated
\* here for proper boxes only (width, height >= 0), where a crop of cropSize
\* pixels exists at all.
C1_SquareCropHasCropSize ==
    (SquareCall /\ PaddedBox.w >= 0 /\ PaddedBox.h >= 0) =>
      LET cropSize == IntMax(PaddedBox.w, PaddedBox.h)
      IN  (Width(image) >= cropSize /\ Height(image) >= cropSize) =>
            /\ ret.kind = "tuple"
            /\ Len(ret.first.rows) = cropSize
            /\ Len(ret.first.cols) = cropSize

\* C2 (as claimed): the box crop_face_to_square returns has x, y, width and
\* height >= 0 and lies inside the image, for every landmark table and
\* padding_percent.
C2_SquareBoxInsideImage ==
    SquareCall =>
      /\ ret.kind = "tuple"
      /\ ret.second.x >= 0
      /\ ret.second.y >= 0
      /\ ret.second.w >= 0
      /\ ret.second.h >= 0
      /\ ret.second.x + ret.second.w <= Width(image)
      /\ ret.second.y + ret.second.h <= Height(image)

\* C10 (as claimed): the box crop_face_to_square returns is the region it
\* cropped: its width and height are the crop's numbers of columns and rows,
\* and the crop holds the image's rows y .. y+height-1 and columns
\* x .. x+width-1.
C10_SquareBoxIsCroppedRegion ==
    SquareCall =>
      /\ ret.kind = "tuple"
      /\ ret.second.w = Len(ret.first.cols)
      /\ ret.second.h = Len(ret.first.rows)
      /\ ret.first.rows = Range(ret.second.y, ret.second.y + ret.second.h)
      /\ ret.first.cols = Range(ret.second.x, ret.second.x + ret.second.w)

\* C4: with an image present, an absent or empty landmark table is no error:
\* calculate_face_bbox and crop_face return None, crop_face_to_square returns
\* (None, None) and calculate_rotation_angle returns 0.0.
C4_NoLandmarksIsNoError ==
    (call # "none" /\ Present(image) /\ ~HasRows(landmarks_df)) =>
      /\ call = "calculate_face_bbox" => ret = NoneVal
      /\ call = "crop_face" => ret = NoneVal
      /\ call = "crop_face_to_square" => ret = Tuple2(NoneVal, NoneVal)
      /\ call = "calculate_rotation_angle" => ret = Angle(0)

\* C4 witness: crop_face_to_square was called with an image and an empty
\* table, and returned (None, None).
C4_Witness ==
    /\ call = "crop_face_to_square"
    /\ Present(image)
    /\ landmarks_df = DataFrame(<<>>)
    /\ ret = Tuple2(NoneVal, NoneVal)

MinX == SetMin(Xs(landmarks_df))

MaxX == SetMax(Xs(landmarks_df))

MinY == SetMin(Ys(landmarks_df))

MaxY == SetMax(Ys(landmarks_df))

\* extent + 2 * p * extent
PaddedExtent(extent) ==
    QAdd(Q(extent), QMul(Q(2), QMul(padding_percent, Q(extent))))

\* The padded left (or top) edge lo - p * extent is not below 0.
Unclamped(lo, extent) == QLeq(Q(0), QSub(Q(lo), QMul(padding_percent, Q(extent))))

UnpaddedBox == calculate_face_bbox(landmarks_df, Q(0))

BboxCall == call = "calculate_face_bbox" /\ HasRows(landmarks_df)

\* C7 (as claimed): with padding 0 calculate_face_bbox returns the tight box
\* (min_x, min_y, ex, ey); with padding p > 0 the width is ex + 2*p*ex and the
\* height ey + 2*p*ey (within 1), strictly larger than the unpadded width and
\* height, also when the left or top edge is clamped to 0.
C7_PaddingAddsTwicePad ==
    BboxCall =>
      /\ padding_percent = Q(0) =>
           ret = BBox(MinX, MinY, MaxX - MinX, MaxY - MinY)
      /\ QLess(Q(0), padding_percent) =>
           /\ Within1(ret.w, PaddedExtent(MaxX - MinX))
           /\ Within1(ret.h, PaddedExtent(MaxY - MinY))
           /\ ret.w > UnpaddedBox.w
           /\ ret.h > UnpaddedBox.h

\* C7 (amended): with padding 0 and no negative coordinate the box is the
\* tight box; with p > 0 the width is ex + 2*p*ex (within 1) when the padded
\* left edge min_x - p*ex is not clamped, and int(max_x + p*ex) when it is
\* clamped to 0 (likewise the height); the padded width and height are never
\* smaller than the unpadded ones, and larger once 2*p*extent >= 1 unclamped.
C7_PaddingAddsTwicePadUnlessClamped ==
    BboxCall =>
      /\ (padding_percent = Q(0) /\ MinX >= 0 /\ MinY >= 0) =>
           ret = BBox(MinX, MinY, MaxX - MinX, MaxY - MinY)
      /\ QLess(Q(0), padding_percent) =>
           /\ ret.w >= UnpaddedBox.w
           /\ ret.h >= UnpaddedBox.h
           /\ Unclamped(MinX, MaxX - MinX) =>
                /\ Within1(ret.w, PaddedExtent(MaxX - MinX))
                /\ QLeq(Q(MaxX - MinX + 1), PaddedExtent(MaxX - MinX)) =>
                     ret.w > UnpaddedBox.w
           /\ ~Unclamped(MinX, MaxX - MinX) =>
                ret.w = PyInt(QAdd(Q(MaxX), QMul(padding_percent, Q(MaxX - MinX))))
           /\ Unclamped(MinY, MaxY - MinY) =>
                /\ Within1(ret.h, PaddedExtent(MaxY - MinY))
                /\ QLeq(Q(MaxY - MinY + 1), PaddedExtent(MaxY - MinY)) =>
                     ret.h > UnpaddedBox.h
           /\ ~Unclamped(MinY, MaxY - MinY) =>
                ret.h = PyInt(QAdd(Q(MaxY), QMul(padding_percent, Q(MaxY - MinY))))

\* C7 witness: a padded box whose left edge is clamped to 0 while its top
\* edge is not, so the width gains less than 2*p*ex and the height 2*p*ey.
C7_Witness ==
    /\ BboxCall
    /\ QLess(Q(0), padding_percent)
    /\ ~Unclamped(MinX, MaxX - MinX)
    /\ Unclamped(MinY, MaxY - MinY)
    /\ MaxY - MinY > 0
    /\ ~Within1(ret.w, PaddedExtent(MaxX - MinX))
    /\ ret.h > UnpaddedBox.h

CropCall == call = "crop_face" /\ Present(image) /\ HasRows(landmarks_df)

\* C8 (as claimed): when the padded box extends past the right or bottom edge
\* of the image crop_face ends in an array-bounds failure; when the box lies
\* inside the image it returns exactly the width x height pixels of the box.
C8_OversizedBoxRaises ==
    CropCall =>
      IF \/ PaddedBox.x + PaddedBox.w > Width(image)
         \/ PaddedBox.y + PaddedBox.h > Height(image)
        THEN ret.kind = "raise"
      ELSE /\ ret.kind = "crop"
           /\ ret.rows = Range(PaddedBox.y, PaddedBox.y + PaddedBox.h)
           /\ ret.cols = Range(PaddedBox.x, PaddedBox.x + PaddedBox.w)

\* C8 (amended): crop_face does not clamp the box itself and never raises for
\* an oversized box: the slice is cut at the image's edge, so for a box of
\* width, height >= 0 it returns the rows y .. min(y+height, H)-1 and columns
\* x .. min(x+width, W)-1, which is the whole box when the box lies inside the
\* image and fewer rows or columns when it does not.
C8_OversizedBoxIsCutAtEdge ==
    CropCall =>
      /\ ret.kind = "crop"
      /\ (PaddedBox.w >= 0 /\ PaddedBox.h >= 0) =>
           /\ ret.rows = Range(PaddedBox.y,
                               IntMin(PaddedBox.y + PaddedBox.h, Height(image)))
           /\ ret.cols = Range(PaddedBox.x,
                               IntMin(PaddedBox.x + PaddedBox.w, Width(image)))

\* C8 witness: a box that starts inside the image and extends past its right
\* edge, cropped to fewer columns than the box is wide.
C8_Witness ==
    /\ CropCall
    /\ PaddedBox.x + PaddedBox.w > Width(image)
    /\ ret.kind = "crop"
    /\ Len(ret.cols) > 0
    /\ Len(ret.cols) < PaddedBox.w
    /\ Len(ret.rows) = PaddedBox.h

(* ----------------------- properties: the eye angle --------------------- *)

LeftEye == FirstWithIndex(landmarks_df, LEFT_EYE)

RightEye == FirstWithIndex(landmarks_df, RIGHT_EYE)

HasEyes(df) == HasRows(df) /\ HasIndex(df, LEFT_EYE) /\ HasIndex(df, RIGHT_EYE)

\* The table with the x positions of the two eye landmarks exchanged.
SwapEyesX(df) ==
    DataFrame([i \in DOMAIN df.rows |->
        IF df.rows[i].index = LEFT_EYE
          THEN [df.rows[i] EXCEPT !.x = FirstWithIndex(df, RIGHT_EYE).x]
        ELSE IF df.rows[i].index = RIGHT_EYE
          THEN [df.rows[i] EXCEPT !.x = FirstWithIndex(df, LEFT_EYE).x]
        ELSE df.rows[i]])

\* The angle a reflected in the vertical axis, in (-180, 180].
Mirror(a) == IF a >= 0 THEN Deg(180) - a ELSE -Deg(180) - a

AngleCall == call = "calculate_rotation_angle" /\ HasEyes(landmarks_df)

\* C9 (as claimed): level eyes give 0.0 whichever eye has the larger x, and
\* exchanging the x positions of the two eyes turns the angle a into -a.
C9_LevelIsZeroAndSwapNegates ==
    AngleCall =>
      /\ LeftEye.y = RightEye.y => ret = Angle(0)
      /\ calculate_rotation_angle(SwapEyesX(landmarks_df)) = Angle(-ret.deg)

\* C9 (amended): level eyes give 0.0 when eye 263 is not left of eye 33 and
\* 180.0 when it is; exchanging the x positions of the two eyes reflects the
\* angle in the vertical axis (a becomes 180 - a for a >= 0 and -180 - a for
\* a < 0), except that coinciding eyes give 0.0 before and after.
C9_LevelIsZeroOr180AndSwapMirrors ==
    AngleCall =>
      /\ LeftEye.y = RightEye.y =>
           ret = Angle(IF RightEye.x >= LeftEye.x THEN 0 ELSE Deg(180))
      /\ calculate_rotation_angle(SwapEyesX(landmarks_df)) =
           IF LeftEye.x = RightEye.x /\ LeftEye.y = RightEye.y
             THEN Angle(0)
           ELSE Angle(Mirror(ret.deg))

\* C9 witness: level eyes with eye 263 left of eye 33, measured as 180.0.
C9_Witness ==
    /\ AngleCall
    /\ LeftEye.y = RightEye.y
    /\ RightEye.x < LeftEye.x
    /\ ret = Angle(Deg(180))

(* ------------------------- properties: rotation ------------------------ *)

RotateCall == call = "rotate_image" /\ Present(image) /\ HasEyes(landmarks_df)

\* C3: rotate_image keeps image and landmarks in registration: the output
\* image has the input's height and width, the output table has the input's
\* rows in the same order with the same index values, and each landmark's new
\* position is its old position under the map that warps the image, so the
\* warped image shows, at the landmark's new position, the source at its old
\* position.
C3_RotationKeepsRegistration ==
    RotateCall =>
      /\ ret.kind = "tuple"
      /\ ret.first.shape = convert_to_numpy(image).shape
      /\ DOMAIN ret.second.rows = DOMAIN landmarks_df.rows
      /\ \A i \in DOMAIN landmarks_df.rows :
           /\ ret.second.rows[i].index = landmarks_df.rows[i].index
           /\ SourceOf(ret.first, ret.second.rows[i].x, ret.second.rows[i].y)
                = <<Q(landmarks_df.rows[i].x), Q(landmarks_df.rows[i].y)>>

\* C3 witness: a table of three landmarks rotated by an angle other than 0,
\* one of which is moved to another pixel of the image.
C3_Witness ==
    /\ RotateCall
    /\ ret.kind = "tuple"
    /\ Len(landmarks_df.rows) = 3
    /\ calculate_rotation_angle(landmarks_df) # Angle(0)
    /\ \E i \in DOMAIN landmarks_df.rows :
         /\ QIsInt(ret.second.rows[i].x)
         /\ QIsInt(ret.second.rows[i].y)
         /\ PyInt(ret.second.rows[i].x) \in 0 .. Width(ret.first) - 1
         /\ PyInt(ret.second.rows[i].y) \in 0 .. Height(ret.first) - 1
         /\ <<ret.second.rows[i].x, ret.second.rows[i].y>>
              # <<Q(landmarks_df.rows[i].x), Q(landmarks_df.rows[i].y)>>

\* C5 (as claimed): rotate_image returns (None, None), and raises nothing,
\* whenever the image or the landmark table is None.
C5_RotateAbsentInputsGiveNonePair ==
    (call = "rotate_image" /\ (IsNone(image) \/ IsNone(landmarks_df))) =>
      ret = Tuple2(NoneVal, NoneVal)

(* ----------------------- properties: normalisation --------------------- *)

\* The number of channels of an input after its batch axis is dropped:
\* 1 for a 2-D grayscale image.
Channels(img) ==
    LET sh == IF Len(img.shape) = 4 THEN Tail(img.shape) ELSE img.shape
    IN  IF Len(sh) = 2 THEN 1 ELSE sh[3]

\* C6 (as claimed): whatever _convert_to_numpy returns is one height x width
\* x 3 array of 8-bit samples, and an input whose channel count is not 1, 3
\* or 4 is rejected with UnsupportedShapeError.
C6_ConvertReturnsCanonicalOrRejects ==
    (call = "_convert_to_numpy" /\ Present(image)) =>
      /\ ret.kind # "raise" => IsCanonical(ret)
      /\ Channels(image) \notin {1, 3, 4} =>
           ret = Raise("UnsupportedShapeError")

====
